---- MODULE Spec2Model ----
(***************************************************************************)
(* A model of the galaxy particle simulation of james_webb_live:           *)
(*   - the GPU engine GPUParticleSystem (ping-pong render targets and the  *)
(*     fragment-shader "compute" kernel),                                   *)
(*   - the packing of type and mass into the position texture's alpha       *)
(*     channel,                                                             *)
(*   - the CPU integrators (central gravity, star forces with respawn),     *)
(*   - the snapshot export / load of the CPU component.                     *)
(*                                                                         *)
(* Numbers.  The discriminant channel is modelled as an IEEE-754 binary32   *)
(* value, exactly: a record [m, e] of value m * 2^e with 2^23 <= m < 2^24   *)
(* (or m = 0), every operation rounded to nearest, ties to even.  Positions *)
(* and velocities are fixed-point integers whose unit is stated next to     *)
(* each subsystem; a value that is NaN or Infinity is recorded as           *)
(* non-finite.                                                              *)
(***************************************************************************)
EXTENDS Integers, Sequences, FiniteSets, TLC

(***************************************************************************)
(* Integer helpers.                                                        *)
(***************************************************************************)
Max(a, b) == IF a >= b THEN a ELSE b

Min(a, b) == IF a <= b THEN a ELSE b

\* Division truncating toward zero, as in fixed-point arithmetic.
TDiv(a, b) == IF a >= 0 THEN a \div b ELSE -((-a) \div b)

RECURSIVE BitLen(_)
\* Number of binary digits of n >= 0 (0 for n = 0).
BitLen(n) == IF n = 0 THEN 0 ELSE 1 + BitLen(n \div 2)

RECURSIVE ISqrtFrom(_, _)
ISqrtFrom(n, r) == IF r * r <= n THEN r ELSE ISqrtFrom(n, (r + n \div r) \div 2)

\* floor(sqrt(n)) for n >= 0, by Newton's iteration from above.
ISqrt(n) == IF n < 2 THEN n ELSE ISqrtFrom(n, 2 ^ ((BitLen(n) + 1) \div 2))

(***************************************************************************)
(* IEEE-754 binary32, round to nearest even.  Float32Array stores and the   *)
(* shader's highp float arithmetic on the discriminant.                     *)
(***************************************************************************)
MantBits == 24

MantMin == 2 ^ (MantBits - 1)

MantMax == 2 ^ MantBits

F32Zero == [m |-> 0, e |-> 0]

F32One == [m |-> MantMin, e |-> 1 - MantBits]

\* q rounded up when the discarded part (r out of d) is above one half, or is
\* exactly one half and q is odd; the mantissa renormalised when it reaches 2^24.
F32Round(q, r, d, e) ==
  LET up == (2 * r > d) \/ (2 * r = d /\ q % 2 = 1)
      q1 == IF up THEN q + 1 ELSE q
  IN  IF q1 = MantMax THEN [m |-> MantMin, e |-> e + 1] ELSE [m |-> q1, e |-> e]

\* The binary32 nearest to n * 2^e, for an integer 0 <= n < 2^31.
F32FromInt(n, e) ==
  LET len == BitLen(n) IN
  IF n = 0 THEN F32Zero
  ELSE IF len <= MantBits
       THEN [m |-> n * 2 ^ (MantBits - len), e |-> e - (MantBits - len)]
       ELSE LET s == len - MantBits
            IN  F32Round(n \div 2 ^ s, n % 2 ^ s, 2 ^ s, e + s)

RECURSIVE GenBits(_, _, _, _)
\* k more quotient bits of (acc + rem/den): <<quotient, remainder>>.
GenBits(acc, rem, den, k) ==
  IF k = 0 THEN <<acc, rem>>
  ELSE GenBits(2 * acc + (IF 2 * rem >= den THEN 1 ELSE 0),
               (2 * rem) % den, den, k - 1)

\* The binary32 nearest to (num / den) * 2^e, for num >= 0 and den > 0.
F32FromRatio(num, den, e) ==
  LET s   == IF num = 0 \/ num >= den THEN 0 ELSE BitLen((den - 1) \div num)
      i   == (num * 2 ^ s) \div den
      k   == MantBits - BitLen(i)
      qr  == GenBits(i, (num * 2 ^ s) % den, den, k)
  IN  IF num = 0 THEN F32Zero ELSE F32Round(qr[1], qr[2], den, e - s - k)

\* x > 0.5
F32GtHalf(x) == x.m > 0 /\ (x.e > -MantBits \/ (x.e = -MantBits /\ x.m > MantMin))

\* the decoder without the offset of 1.0
F32SubNothing(x) == x

\* x - 1.0 for x >= 1.0 (exact in binary32).
F32SubOne(x) == F32FromInt(x.m - 2 ^ (-x.e), x.e)

\* x * 1000.0 = (x.m * 125) * 2^(x.e + 3)
F32Mul1000(x) == F32FromInt(x.m * 125, x.e + 3)

\* x / 1000.0
F32Div1000(x) == F32FromRatio(x.m, 1000, x.e)

\* x + 1.0 for 0 <= x < 2^24
F32AddOne(x) ==
  IF x.m = 0 THEN F32One
  ELSE IF x.e >= 1 - MantBits
       THEN F32FromInt(x.m + 2 ^ (-x.e), x.e)
       ELSE LET d == (1 - MantBits) - x.e
            IN  IF d > MantBits + 1 THEN F32One
                ELSE F32Round(MantMin + x.m \div 2 ^ d, x.m % 2 ^ d, 2 ^ d,
                              1 - MantBits)

\* The whole part of x >= 0 (the mass in whole units, for the force formulas).
F32ToInt(x) ==
  IF x.m = 0 THEN 0
  ELSE IF x.e >= 0 THEN x.m * 2 ^ x.e
       ELSE IF -x.e > 30 THEN 0 ELSE x.m \div 2 ^ (-x.e)

(***************************************************************************)
(* Vectors: triples of fixed-point integers.                               *)
(***************************************************************************)
VZero == <<0, 0, 0>>

VAdd(a, b) == <<a[1] + b[1], a[2] + b[2], a[3] + b[3]>>

VSub(a, b) == <<a[1] - b[1], a[2] - b[2], a[3] - b[3]>>

\* v * num / den, component by component
VScale(v, num, den) ==
  <<TDiv(v[1] * num, den), TDiv(v[2] * num, den), TDiv(v[3] * num, den)>>

\* length(v); 0 only for the zero vector
Length(v) == ISqrt(v[1] * v[1] + v[2] * v[2] + v[3] * v[3])

(***************************************************************************)
(* The GPU engine.  Unit of position and velocity: 1/100.  deltaTime in     *)
(* milliseconds, the two strengths in tenths.                               *)
(***************************************************************************)
\* The particles handed to the constructor: sequences of records
\* [position, velocity, mass10 (the mass in tenths), type].
Star(p, m10) == [position |-> p, velocity |-> VZero, mass10 |-> m10, type |-> "star"]

Ambient(p, v) == [position |-> p, velocity |-> v, mass10 |-> 1, type |-> "particle"]

\* No star lies on the vertical axis: atan(0, 0) in the star branch is undefined.
\* One star of mass 100, one of mass 2056.3.
Stars == {Star(<<100, 0, 100>>, 1000), Star(<<300, 20, -200>>, 20563)}

\* coincident with the first star, directly above it, nearby at rest, nearby and
\* moving, near the boundary and moving outward
Ambients ==
  {Ambient(<<100, 0, 100>>, <<0, 0, 0>>), Ambient(<<100, 50, 100>>, <<0, 0, 0>>),
   Ambient(<<250, 10, 150>>, <<0, 0, 0>>), Ambient(<<250, 10, 150>>, <<400, 0, 100>>),
   Ambient(<<1950, 0, 0>>, <<400, 0, 100>>)}

\* four stars of mass 100 at distance 3 around one particle at rest
Cluster ==
  <<Star(<<1000, 0, 700>>, 1000), Star(<<400, 0, 700>>, 1000),
    Star(<<700, 0, 1000>>, 1000), Star(<<700, 0, 400>>, 1000),
    Ambient(<<700, 0, 700>>, <<0, 0, 0>>)>>

\* one star two units from one particle at rest, in the grid cell next to it
Neighbours == <<Star(<<900, 0, 100>>, 1000), Ambient(<<1100, 0, 100>>, <<0, 0, 0>>)>>

GPUSeeds ==
  {<<star, ambient>> : star \in Stars, ambient \in Ambients} \cup {Cluster, Neighbours}

\* deltaTime is the frame delta of useFrame, uncapped: a 16 ms frame, a 1 s hitch.
DeltaTimes == {16, 1000}

\* slider values, in tenths (0 .. 2 in steps of 0.1)
Strengths == {0, 5, 20}

\* number of update() calls explored
MaxFrames == 2

\* number of slider changes explored
MaxSliderMoves == 1

\* Math.ceil(Math.sqrt(n))
CeilSqrt(n) == IF ISqrt(n) * ISqrt(n) = n THEN ISqrt(n) ELSE ISqrt(n) + 1

\* A texel: xyz, the alpha channel w (binary32), and whether xyz is finite.
Texel(v, w) == [xyz |-> v, w |-> w, fin |-> TRUE]

ZeroTexel == Texel(VZero, F32Zero)

\* positionData[i4 + 3]: for stars 1.0 + mass/1000, for particles 0.0
EncodeDiscriminant(particle) ==
  IF particle.type = "star"
  THEN F32FromRatio(10000 + particle.mass10, 10000, 0)
  ELSE F32Zero

\* positionData / velocityData of initializeTextures: one texel per particle in
\* row-major order, the remaining texels of the S x S texture left zero.
PositionData(particles, size) ==
  [i \in 0 .. size * size - 1 |->
     IF i < Len(particles)
     THEN Texel(particles[i + 1].position, EncodeDiscriminant(particles[i + 1]))
     ELSE ZeroTexel]

VelocityData(particles, size) ==
  [i \in 0 .. size * size - 1 |->
     IF i < Len(particles)
     THEN Texel(particles[i + 1].velocity, F32Zero)
     ELSE ZeroTexel]

(***************************************************************************)
(* GPUParticleSystem: its fields, the record of the last update(), and the  *)
(* device's treatment of a division by zero in a shader.                   *)
(***************************************************************************)
VARIABLES
  textureSize,             \* Math.ceil(Math.sqrt(particles.length))
  positionRenderTargets,   \* [0 .. 1 -> texture]
  currentPositionIndex,
  velocityRenderTargets,   \* [0 .. 1 -> texture]
  currentVelocityIndex,
  starPositionTexture,     \* the DataTexture made from positionData
  computeUniforms,         \* computeMaterial.uniforms
  particleUniforms,        \* particleMaterial.uniforms
  lastPass,                \* what the last update() bound, computed and wrote
  frames,                  \* number of update() calls so far
  sliderMoves,             \* number of slider changes so far
  ieeeDivide,              \* TRUE: x / 0.0 is Infinity or NaN on this device;
                           \* FALSE: it is some finite value (GLSL ES leaves the
                           \* result unspecified)
  allocated,               \* the render targets, textures, geometries and
                           \* materials created and not disposed of
  disposed                 \* dispose() was called

gpuVars ==
  <<textureSize, positionRenderTargets, currentPositionIndex, velocityRenderTargets,
    currentVelocityIndex, starPositionTexture, computeUniforms, particleUniforms,
    lastPass, frames, sliderMoves, ieeeDivide, allocated, disposed>>

(***************************************************************************)
(* The packing of one particle into the discriminant channel and back.     *)
(***************************************************************************)
VARIABLES
  encodedParticle,         \* the particle handed to the encoder
  alpha,                   \* positionData[i4 + 3] once written
  decoded                  \* what loadParticle() reads back from that texel

packVars == <<encodedParticle, alpha, decoded>>

(***************************************************************************)
(* The CPU component that loads a document, integrates central gravity and *)
(* exports a snapshot.                                                     *)
(***************************************************************************)
VARIABLES
  initialData,             \* the document the component was given
  positions,               \* geometry.attributes.position.array, per particle
  velocities,              \* velocities.current, per particle
  colors,                  \* geometry.attributes.color.array, per particle
  sizes,                   \* sizes.current, per particle
  galaxyData,              \* the document of the last export
  exportedFrom,            \* the arrays as they were when it was exported
  imported,                \* the arrays were just loaded from galaxyData
  ticks                    \* number of frames so far

cpuVars ==
  <<initialData, positions, velocities, colors, sizes, galaxyData, exportedFrom,
    imported, ticks>>

(***************************************************************************)
(* The CPU component that integrates star forces and respawns particles.   *)
(***************************************************************************)
VARIABLES
  stars,                   \* the stars of the loaded document
  particlePos,             \* particlesRef geometry position array, per particle
  particleVelocities,      \* particleVelocities.current, per particle
  lastTick,                \* per particle, what the last frame saw and did
  starTicks                \* number of frames so far

starVars == <<stars, particlePos, particleVelocities, lastTick, starTicks>>

(***************************************************************************)
(* The application around the simulations: the file selector and the        *)
(* components that load a document.                                         *)
(***************************************************************************)
VARIABLES
  file,                    \* the file last chosen in the selector
  selected,                \* the data onSelect was called with, if it was
  alerts,                  \* alert() calls made for that file
  loaded,                  \* what the component last mounted holds
  generated,               \* the last run of the generator script
  view,                    \* the image viewer: container size, scale, offset
  reference,               \* the point geometry's reference attribute and the
                           \* texel the vertex shader last fetched through it
  simulation,              \* the component that owns a GPUParticleSystem
  app                      \* the state of App

shellVars ==
  <<file, selected, alerts, loaded, generated, view, reference, simulation, app>>

vars == <<gpuVars, packVars, cpuVars, starVars, shellVars>>

\* A component that is not mounted holds nothing.
GPUUnmounted ==
  /\ textureSize = <<>> /\ positionRenderTargets = <<>> /\ currentPositionIndex = <<>>
  /\ velocityRenderTargets = <<>> /\ currentVelocityIndex = <<>>
  /\ starPositionTexture = <<>> /\ computeUniforms = <<>> /\ particleUniforms = <<>>
  /\ lastPass = <<>> /\ frames = <<>> /\ sliderMoves = <<>> /\ ieeeDivide = <<>>
  /\ allocated = <<>> /\ disposed = <<>>

PackUnmounted == encodedParticle = <<>> /\ alpha = <<>> /\ decoded = <<>>

CPUUnmounted ==
  /\ initialData = <<>> /\ positions = <<>> /\ velocities = <<>> /\ colors = <<>>
  /\ sizes = <<>> /\ galaxyData = <<>> /\ exportedFrom = <<>> /\ imported = <<>>
  /\ ticks = <<>>

StarUnmounted ==
  /\ stars = <<>> /\ particlePos = <<>> /\ particleVelocities = <<>>
  /\ lastTick = <<>> /\ starTicks = <<>>

ShellUnmounted ==
  /\ file = <<>> /\ selected = <<>> /\ alerts = <<>> /\ loaded = <<>>
  /\ generated = <<>> /\ view = <<>> /\ reference = <<>> /\ simulation = <<>>
  /\ app = <<>>

(***************************************************************************)
(* The compute shader.                                                     *)
(***************************************************************************)
\* const float G = 6.67430e-3, in millionths
G6 == 6674

\* STAR_INFLUENCE_RADIUS = 5.0
StarInfluenceRadius == 500

\* MAX_STARS_PER_PARTICLE = 3.0, in 1/10000 (the unit of the influence weights)
MaxStarsPerParticle == 30000

\* float maxRadius = 20.0
MaxRadius == 2000

NonFinite == [v |-> VZero, fin |-> FALSE]

\* the value of an expression that divides by zero
DivideByZero == IF ieeeDivide THEN NonFinite ELSE [v |-> VZero, fin |-> TRUE]

\* loadParticle(): the texel's own position, velocity, type and mass.  The mass
\* of a star is (w - 1.0) * 1000.0 in binary32; an ambient particle's is 0.1.
loadParticle(posData, velData) ==
  LET isStar == F32GtHalf(posData.w) IN
  [position |-> posData.xyz,
   velocity |-> velData.xyz,
   isStar   |-> isStar,
   mass     |-> IF isStar THEN F32Mul1000(F32SubOne(posData.w))
                ELSE [m |-> 13421773, e |-> -27],
   posFin   |-> posData.fin,
   fin      |-> posData.fin /\ velData.fin]

\* G * mass1 * mass2 * delta / (r2 * r) with r2 = r * r + 0.1; mass1 in tenths,
\* mass2 in whole units.  At r = 0 the quotient is 0/0.
calculateGravitationalForce(pos1, mass1, pos2, mass2) ==
  LET delta == VSub(pos2, pos1)
      r     == Length(delta)
      r2    == r * r + 1000
  IN  IF r2 * r = 0 THEN DivideByZero
      ELSE [v |-> VScale(delta, TDiv(G6 * mass2 * mass1, 10), r2 * r), fin |-> TRUE]

\* normalize(cross(toCenter, (0,1,0))) * sqrt(G * centerMass / r).  r = 0 divides
\* by zero; a toCenter along the vertical axis normalizes the zero vector.
calculateOrbitalVelocity(pos, centerPos, centerMass) ==
  LET toCenter == VSub(centerPos, pos)
      r        == Length(toCenter)
      crossed  == <<-toCenter[3], 0, toCenter[1]>>
  IN  IF r = 0 \/ Length(crossed) = 0 THEN DivideByZero
      ELSE [v |-> VScale(crossed, ISqrt((G6 * centerMass) \div r), Length(crossed)),
            fin |-> TRUE]

\* texture2D(tex, (cell + 0.5) / uTextureSize): nearest texel, coordinates
\* clamped to the edge; texel (col, row) is element row * size + col.
ClampCoord(c, size) == Max(0, Min(size - 1, c))

SampleIndex(col, row, size) == ClampCoord(row, size) * size + ClampCoord(col, size)

\* floor(particle.position.xz / STAR_INFLUENCE_RADIUS)
GridPos(position) ==
  <<position[1] \div StarInfluenceRadius, position[3] \div StarInfluenceRadius>>

\* influence = (1 - dist/5)^2, in 1/10000, rounded up (positive whenever dist < 5)
Influence(dist) ==
  ((StarInfluenceRadius - dist) * (StarInfluenceRadius - dist) + 24) \div 25

EmptyScan ==
  [totalForce |-> VZero, totalOrbitalVel |-> VZero, totalInfluence |-> 0,
   fin |-> TRUE, contributions |-> 0, found |-> {}]

\* (starPosData.w - 1.0) * 1000.0, as a whole number
StarMass(starPosData) == F32ToInt(F32Mul1000(F32SubOne(starPosData.w)))

\* totalForce += force * influence; totalOrbitalVel += orbitalVel * influence;
\* totalInfluence += influence
Accumulate(acc, force, orbitalVel, influence) ==
  [totalForce      |-> VAdd(acc.totalForce, VScale(force.v, influence, 10000)),
   totalOrbitalVel |-> VAdd(acc.totalOrbitalVel, VScale(orbitalVel.v, influence, 10000)),
   totalInfluence  |-> acc.totalInfluence + influence,
   fin             |-> acc.fin /\ force.fin /\ orbitalVel.fin,
   contributions   |-> acc.contributions + 1,
   found           |-> acc.found]

\* the body of the dy/dx loops for the sampled texel starPosData; found keeps
\* the texels that contributed
ScanStar(particle, starPosData, acc) ==
  IF /\ F32GtHalf(starPosData.w)
     /\ Length(VSub(starPosData.xyz, particle.position)) < StarInfluenceRadius
  THEN [Accumulate(acc,
                   calculateGravitationalForce(particle.position, 1, starPosData.xyz,
                                               StarMass(starPosData)),
                   calculateOrbitalVelocity(particle.position, starPosData.xyz,
                                            StarMass(starPosData)),
                   Influence(Length(VSub(starPosData.xyz, particle.position))))
          EXCEPT !.found = @ \cup {starPosData}]
  ELSE acc

\* One iteration of the dy/dx loops: cell c = 3 * (dy + 1) + (dx + 1).
ScanCell(particle, starTex, size, c, acc) ==
  ScanStar(particle,
           starTex[SampleIndex(GridPos(particle.position)[1] + (c % 3) - 1,
                               GridPos(particle.position)[2] + (c \div 3) - 1, size)],
           acc)

RECURSIVE NeighborScan(_, _, _, _, _)
\* The grid-based neighbor search, with its two breaks.
NeighborScan(particle, starTex, size, c, acc) ==
  IF c > 8 \/ acc.totalInfluence >= MaxStarsPerParticle THEN acc
  ELSE NeighborScan(particle, starTex, size, c + 1,
                    ScanCell(particle, starTex, size, c, acc))

\* The velocity update: with influence, mix(velocity, totalOrbitalVel,
\* uOrbitalStrength * dt) + totalForce * uGravityStrength * dt, damped by 0.99.
NewVelocity(particle, scan, dt, gravity, orbital) ==
  IF scan.totalInfluence > 0
  THEN VScale(VAdd(VAdd(VScale(particle.velocity, 10000 - orbital * dt, 10000),
                        VScale(VScale(scan.totalOrbitalVel, 10000, scan.totalInfluence),
                               orbital * dt, 10000)),
                   VScale(VScale(scan.totalForce, 10000, scan.totalInfluence),
                          10 * gravity * dt, 10000)),
              99, 100)
  ELSE particle.velocity

\* The boundary clamp on the moved position, and the shader's locals when
\* main() ends.
Clamped(velocity, moved, dist, fin, scan) ==
  IF ~fin
  THEN [position |-> VZero, velocity |-> VZero, w |-> F32Zero, fin |-> FALSE,
        isStar |-> FALSE, exceeded |-> FALSE, moved |-> VZero,
        contributions |-> scan.contributions, found |-> scan.found,
        totalInfluence |-> scan.totalInfluence]
  ELSE [position |-> IF dist > MaxRadius THEN VScale(moved, MaxRadius, dist) ELSE moved,
        velocity |-> IF dist > MaxRadius THEN VScale(velocity, 1, 2) ELSE velocity,
        w |-> F32Zero, fin |-> TRUE, isStar |-> FALSE,
        exceeded |-> dist > MaxRadius, moved |-> moved,
        contributions |-> scan.contributions, found |-> scan.found,
        totalInfluence |-> scan.totalInfluence]

\* particle.position += particle.velocity * dt
Moved(particle, scan, velocity, dt) ==
  Clamped(velocity,
          VAdd(particle.position, VScale(velocity, dt, 1000)),
          Length(VAdd(particle.position, VScale(velocity, dt, 1000))),
          particle.fin /\ (scan.totalInfluence > 0 => scan.fin),
          scan)

Integrate(particle, scan, dt, gravity, orbital) ==
  Moved(particle, scan, NewVelocity(particle, scan, dt, gravity, orbital), dt)

\* The branch for an ambient particle.
AmbientBranch(particle, starTex, size, dt, gravity, orbital) ==
  Integrate(particle, NeighborScan(particle, starTex, size, 0, EmptyScan),
            dt, gravity, orbital)

\* The branch for a star: a rotation about the vertical axis by
\* orbitalSpeed * dt (sine to first order, cosine to second), y settling by
\* 0.998; the discriminant is recomputed as mass / 1000.0 + 1.0.
StarBranch(particle, dt) ==
  LET x      == particle.position[1]
      z      == particle.position[3]
      radius == ISqrt(x * x + z * z)
      speed  == 50000 \div ISqrt(Max(10, radius) * 100)
      angle  == TDiv(speed * dt, 1000)
      newPos == <<x - TDiv(z * angle, 10000) - TDiv(TDiv(x * angle, 10000) * angle, 20000),
                  TDiv(particle.position[2] * 998, 1000),
                  z + TDiv(x * angle, 10000) - TDiv(TDiv(z * angle, 10000) * angle, 20000)>>
  IN  [position |-> IF particle.posFin THEN newPos ELSE VZero,
       velocity |-> IF particle.fin THEN particle.velocity ELSE VZero,
       w |-> F32AddOne(F32Div1000(particle.mass)), fin |-> particle.posFin,
       isStar |-> TRUE, exceeded |-> FALSE, moved |-> newPos, contributions |-> 0,
       found |-> {}, totalInfluence |-> 0]

\* main() without the star branch: every texel integrated as an ambient particle
ShaderMainOneBranch(posData, velData, starTex, size, dt, gravity, orbital) ==
  AmbientBranch(loadParticle(posData, velData), starTex, size, dt, gravity, orbital)

\* main() for one output texel
ShaderMain(posData, velData, starTex, size, dt, gravity, orbital) ==
  LET particle == loadParticle(posData, velData) IN
  IF particle.isStar THEN StarBranch(particle, dt)
  ELSE AmbientBranch(particle, starTex, size, dt, gravity, orbital)

\* gl_FragColor = vec4(position, w): the one output of the shader
FragColor(out) == [xyz |-> out.position, w |-> out.w, fin |-> out.fin]

\* One full-screen render of computeMesh: main() for every texel.
ComputePass(posTex, velTex, starTex, size, dt, gravity, orbital) ==
  [i \in 0 .. size * size - 1 |->
     ShaderMain(posTex[i], velTex[i], starTex, size, dt, gravity, orbital)]

(***************************************************************************)
(* GPUParticleSystem: construction, update(), the two setters.             *)
(***************************************************************************)
\* a uniform holding no texture ({ value: null })
NullTexture == -1

\* what the constructor, initializeTextures and initializeParticleSystem create
Allocations ==
  {"positionRenderTargets[0]", "positionRenderTargets[1]", "velocityRenderTargets[0]",
   "velocityRenderTargets[1]", "quadGeometry", "starPositionTexture", "colorTexture",
   "initialPositionTexture", "initialVelocityTexture", "MeshBasicMaterial (position)",
   "MeshBasicMaterial (velocity 0)", "MeshBasicMaterial (velocity 1)",
   "particleGeometry", "particleMaterial", "computeMaterial"}

\* The state new GPUParticleSystem(renderer, particles) leaves: positionData
\* copied to position target 0, velocityData to both velocity targets; position
\* target 1 is allocated and not written (its texels are zero).
Constructed(particles) ==
  LET size == CeilSqrt(Len(particles)) IN
  /\ textureSize = size
  /\ starPositionTexture = PositionData(particles, size)
  /\ positionRenderTargets =
       [k \in 0 .. 1 |-> IF k = 0 THEN PositionData(particles, size)
                         ELSE [i \in 0 .. size * size - 1 |-> ZeroTexel]]
  /\ velocityRenderTargets = [k \in 0 .. 1 |-> VelocityData(particles, size)]
  /\ currentPositionIndex = 0
  /\ currentVelocityIndex = 0
  /\ computeUniforms =
       [uDeltaTime |-> 0, uGravityStrength |-> 5, uOrbitalStrength |-> 10,
        uPositionTexture |-> NullTexture, uVelocityTexture |-> NullTexture]
  /\ particleUniforms = [uPositionTexture |-> NullTexture]
  /\ lastPass = [ran |-> FALSE]
  /\ frames = 0
  /\ sliderMoves = 0
  /\ ieeeDivide \in BOOLEAN
  /\ allocated = Allocations
  /\ disposed = FALSE

\* the render target update() writes: positionRenderTargets[1 - current]
WriteIndexSame(current) == current

WriteIndex(current) == 1 - current

\* no swap: the index stays
SwapIndexKept(current) == current

\* the swap: current = 1 - current
SwapIndex(current) == 1 - current

\* the target update() hands to the point renderer: positionRenderTargets[current]
\* of the swapped index
RenderIndexStale(current) == 1 - current

RenderIndex(current) == current

\* renderer.setRenderTarget(targets[index]); renderer.render(computeMesh, camera)
RenderInto(targets, index, pass) ==
  [targets EXCEPT ![index] = [i \in DOMAIN pass |-> FragColor(pass[i])]]

\* one render of computeMesh with the bound uniforms
Compute(posTargets, velTargets, uniforms) ==
  ComputePass(posTargets[uniforms.uPositionTexture],
              velTargets[uniforms.uVelocityTexture],
              starPositionTexture, textureSize, uniforms.uDeltaTime,
              uniforms.uGravityStrength, uniforms.uOrbitalStrength)

\* the swap of the indices, the point renderer's binding, the record of the call
Swap(uniforms, posPass, posTargets, velPass) ==
  /\ computeUniforms' = uniforms
  /\ positionRenderTargets' = posTargets
  /\ velocityRenderTargets' =
       RenderInto(velocityRenderTargets, WriteIndex(currentVelocityIndex), velPass)
  /\ currentPositionIndex' = SwapIndex(currentPositionIndex)
  /\ currentVelocityIndex' = SwapIndex(currentVelocityIndex)
  /\ particleUniforms' =
       [uPositionTexture |-> RenderIndex(SwapIndex(currentPositionIndex))]
  /\ lastPass' = [ran |-> TRUE,
                  posTarget |-> WriteIndex(currentPositionIndex),
                  velTarget |-> WriteIndex(currentVelocityIndex),
                  posInput |-> uniforms.uPositionTexture,
                  velInput |-> uniforms.uVelocityTexture,
                  gravity |-> uniforms.uGravityStrength,
                  orbital |-> uniforms.uOrbitalStrength,
                  out |-> posPass, velOut |-> velPass,
                  posBefore |-> positionRenderTargets[uniforms.uPositionTexture],
                  velBefore |-> velocityRenderTargets[uniforms.uVelocityTexture]]
  /\ frames' = frames + 1
  /\ UNCHANGED <<textureSize, starPositionTexture, sliderMoves, ieeeDivide, allocated,
                 disposed>>
  /\ UNCHANGED <<packVars, cpuVars, starVars, shellVars>>

\* "Update velocities": the same mesh, with the same uniforms, rendered into the
\* velocity target.  The bound position texture is the one the first render
\* read, unless that render wrote into it.
UpdateVelocities(uniforms, posPass, posTargets) ==
  Swap(uniforms, posPass, posTargets,
       IF WriteIndex(currentPositionIndex) # uniforms.uPositionTexture THEN posPass
       ELSE Compute(posTargets, velocityRenderTargets, uniforms))

\* "Update positions": computeMesh rendered into the position target
UpdatePositions(uniforms, posPass) ==
  UpdateVelocities(uniforms, posPass,
                   RenderInto(positionRenderTargets, WriteIndex(currentPositionIndex),
                              posPass))

\* "Update compute shader uniforms": the strengths are the ones the material
\* holds, not the constructor's
BindDefaults(uniforms) ==
  UpdatePositions([uniforms EXCEPT !.uGravityStrength = 5, !.uOrbitalStrength = 10],
                  Compute(positionRenderTargets, velocityRenderTargets,
                          [uniforms EXCEPT !.uGravityStrength = 5,
                                           !.uOrbitalStrength = 10]))

Bind(uniforms) ==
  UpdatePositions(uniforms, Compute(positionRenderTargets, velocityRenderTargets, uniforms))

\* update(deltaTime)
Update(deltaTime) ==
  /\ ~disposed
  /\ frames < MaxFrames
  /\ Bind([computeUniforms EXCEPT !.uDeltaTime = deltaTime,
                                  !.uPositionTexture = currentPositionIndex,
                                  !.uVelocityTexture = currentVelocityIndex])

\* setGravityStrength(value)
SetGravityStrength(value) ==
  /\ ~disposed
  /\ sliderMoves < MaxSliderMoves
  /\ computeUniforms.uGravityStrength # value
  /\ sliderMoves' = sliderMoves + 1
  /\ computeUniforms' = [computeUniforms EXCEPT !.uGravityStrength = value]
  /\ UNCHANGED <<textureSize, positionRenderTargets, currentPositionIndex,
                 velocityRenderTargets, currentVelocityIndex, starPositionTexture,
                 particleUniforms, lastPass, frames, ieeeDivide, allocated, disposed>>
  /\ UNCHANGED <<packVars, cpuVars, starVars, shellVars>>

\* setOrbitalStrength(value)
SetOrbitalStrength(value) ==
  /\ ~disposed
  /\ sliderMoves < MaxSliderMoves
  /\ computeUniforms.uOrbitalStrength # value
  /\ sliderMoves' = sliderMoves + 1
  /\ computeUniforms' = [computeUniforms EXCEPT !.uOrbitalStrength = value]
  /\ UNCHANGED <<textureSize, positionRenderTargets, currentPositionIndex,
                 velocityRenderTargets, currentVelocityIndex, starPositionTexture,
                 particleUniforms, lastPass, frames, ieeeDivide, allocated, disposed>>
  /\ UNCHANGED <<packVars, cpuVars, starVars, shellVars>>

\* what dispose() calls .dispose() on
Released ==
  {"positionRenderTargets[0]", "positionRenderTargets[1]", "velocityRenderTargets[0]",
   "velocityRenderTargets[1]", "starPositionTexture", "colorTexture", "quadGeometry",
   "particleGeometry", "computeMaterial", "particleMaterial"}

\* dispose(): the engine is torn down, nothing is called on it afterwards
Dispose ==
  /\ ~disposed
  /\ disposed' = TRUE
  /\ allocated' = allocated \ Released
  /\ UNCHANGED <<textureSize, positionRenderTargets, currentPositionIndex,
                 velocityRenderTargets, currentVelocityIndex, starPositionTexture,
                 computeUniforms, particleUniforms, lastPass, frames, sliderMoves,
                 ieeeDivide>>
  /\ UNCHANGED <<packVars, cpuVars, starVars, shellVars>>

GPUInit ==
  /\ \E particles \in GPUSeeds : Constructed(particles)
  /\ PackUnmounted /\ CPUUnmounted /\ StarUnmounted /\ ShellUnmounted

GPUNext ==
  \/ \E deltaTime \in DeltaTimes : Update(deltaTime)
  \/ \E value \in Strengths : SetGravityStrength(value)
  \/ \E value \in Strengths : SetOrbitalStrength(value)
  \/ Dispose

SpecGPU == GPUInit /\ [][GPUNext]_vars

(***************************************************************************)
(* Properties of the GPU engine.                                           *)
(***************************************************************************)
\* C1: between updates, the position render target bound to
\* particleMaterial.uPositionTexture (the one the point renderer reads) is never
\* the position render target the compute pass writes, which is
\* positionRenderTargets[1 - currentPositionIndex].
C1_RenderReadIsNotComputeWrite ==
  particleUniforms.uPositionTexture # WriteIndex(currentPositionIndex)

\* two updates have run and the renderer reads target 0 again
C1_Witness ==
  /\ frames = 2
  /\ particleUniforms.uPositionTexture = 0
  /\ lastPass.posTarget = 0

\* C2: in every update(), for the position pair and for the velocity pair, the
\* target bound as compute input differs from the target rendered into.
C2_InputIsNotOutput ==
  lastPass.ran =>
    /\ lastPass.posInput # lastPass.posTarget
    /\ lastPass.velInput # lastPass.velTarget

\* the second update: it reads targets 1 and writes targets 0
C2_Witness ==
  /\ lastPass.ran
  /\ lastPass.posInput = 1 /\ lastPass.posTarget = 0
  /\ lastPass.velInput = 1 /\ lastPass.velTarget = 0

\* C3: after every update(), the velocity target written in that pass holds, for
\* each texel, the velocity the kernel computed, and the position target the
\* position it computed.
C3_VelocityTargetHoldsVelocity ==
  lastPass.ran =>
    \A i \in DOMAIN lastPass.out :
      lastPass.out[i].fin =>
        /\ positionRenderTargets[lastPass.posTarget][i].xyz = lastPass.out[i].position
        /\ velocityRenderTargets[lastPass.velTarget][i].xyz = lastPass.velOut[i].velocity

\* C4: across any number of passes, every texel's discriminant in the current
\* position target equals the value the encoder wrote for it (the alpha of
\* positionData, kept in starPositionTexture).
C4_DiscriminantUnchanged ==
  \A i \in DOMAIN starPositionTexture :
    positionRenderTargets[currentPositionIndex][i].w = starPositionTexture[i].w

\* C6: no pass ever produces a non-finite position or velocity component, from
\* any seed with finite positions and velocities.
C6_AlwaysFinite ==
  \A k \in 0 .. 1 :
    \A i \in DOMAIN starPositionTexture :
      positionRenderTargets[k][i].fin /\ velocityRenderTargets[k][i].fin

\* C9: after every pass every ambient particle is within distance 20 of the
\* origin; one whose integrated position exceeded 20 lies on the boundary (to
\* the fixed-point resolution) and its stored velocity is half the integrated
\* velocity.
C9_ClampedAndHalved ==
  lastPass.ran =>
    \A i \in DOMAIN lastPass.out :
      (lastPass.out[i].fin /\ ~lastPass.out[i].isStar) =>
        /\ Length(positionRenderTargets[lastPass.posTarget][i].xyz) <= MaxRadius
        /\ lastPass.out[i].exceeded =>
             /\ Length(positionRenderTargets[lastPass.posTarget][i].xyz) >= MaxRadius - 2
             /\ velocityRenderTargets[lastPass.velTarget][i].xyz =
                  lastPass.velOut[i].velocity

\* C18: once dispose() has returned, nothing the engine created is still
\* allocated.
C18_NothingLeftAllocated == disposed => allocated = {}

\* C20: in one pass, at most 3 stars contribute force and orbital velocity to
\* an ambient particle.
C20_ContributorsCapped ==
  lastPass.ran =>
    \A i \in DOMAIN lastPass.out :
      lastPass.out[i].contributions <= MaxStarsPerParticle \div 10000

\* C21: in every pass, for every ambient particle, every star of the star
\* texture that lies in the 3 x 3 block of grid cells around the particle and
\* within the influence radius of it has contributed, unless the scan stopped
\* at the cap; and every texel that contributed is within the influence radius.
C21_StarsInBlockFound ==
  lastPass.ran =>
    \A i \in DOMAIN lastPass.out :
      (lastPass.out[i].fin /\ ~lastPass.out[i].isStar) =>
        /\ \A j \in DOMAIN starPositionTexture :
             ( /\ F32GtHalf(starPositionTexture[j].w)
               /\ \A k \in 1 .. 2 :
                    GridPos(starPositionTexture[j].xyz)[k]
                      - GridPos(lastPass.posBefore[i].xyz)[k] \in -1 .. 1
               /\ Length(VSub(starPositionTexture[j].xyz, lastPass.posBefore[i].xyz))
                    < StarInfluenceRadius )
             => \/ starPositionTexture[j] \in lastPass.out[i].found
                \/ lastPass.out[i].totalInfluence >= MaxStarsPerParticle
        /\ \A texel \in lastPass.out[i].found :
             Length(VSub(texel.xyz, lastPass.posBefore[i].xyz)) < StarInfluenceRadius

\* C22: the star texture a pass reads holds, for every star, the position that
\* star has in the position target the pass reads, which is where the pass
\* before it left the star.
C22_StarsReadAsLastCompleted ==
  lastPass.ran =>
    \A j \in DOMAIN starPositionTexture :
      F32GtHalf(starPositionTexture[j].w) =>
        starPositionTexture[j].xyz = lastPass.posBefore[j].xyz

\* C23: the texel a pass writes for a star is the one main() gives for the
\* star's own position texel and the frame's dt when everything else is blank
\* (zero velocity texel, a star texture of one empty texel, both strengths 0):
\* two engine states that agree on the star's texel and on dt therefore write
\* the same texel for it, whatever their ambient texels hold.
C23_StarIndependentOfAmbient ==
  lastPass.ran =>
    \A i \in DOMAIN lastPass.posBefore :
      F32GtHalf(lastPass.posBefore[i].w) =>
        positionRenderTargets[lastPass.posTarget][i] =
          FragColor(ShaderMain(lastPass.posBefore[i], ZeroTexel,
                               [n \in 0 .. 0 |-> ZeroTexel], 1,
                               computeUniforms.uDeltaTime, 0, 0))

\* a pass moved a star, and moved an ambient particle of the same engine
C23_Witness ==
  /\ lastPass.ran
  /\ \E i \in DOMAIN lastPass.out :
       /\ lastPass.out[i].isStar
       /\ lastPass.out[i].position # lastPass.posBefore[i].xyz
  /\ \E i \in DOMAIN lastPass.out :
       /\ ~lastPass.out[i].isStar /\ lastPass.out[i].fin
       /\ lastPass.out[i].position # lastPass.posBefore[i].xyz

\* C27: between update() calls the two indices are equal and in {0, 1}; after
\* k updates both are k mod 2.
C27_IndicesInStep ==
  /\ currentPositionIndex = currentVelocityIndex
  /\ currentPositionIndex \in {0, 1}
  /\ currentPositionIndex = frames % 2

\* two updates have run: both indices went to 1 and are back at 0
C27_Witness ==
  /\ frames = 2
  /\ currentPositionIndex = 0 /\ currentVelocityIndex = 0
  /\ lastPass.posInput = 1 /\ lastPass.velInput = 1

\* C17: a setter changes only its uniform (render targets, their contents and
\* the indices stay as they are), and the next update() renders its pass
\* with the strengths that were set.
C17_SettersOnlySetUniform ==
  [][/\ sliderMoves' # sliderMoves =>
          /\ positionRenderTargets' = positionRenderTargets
          /\ velocityRenderTargets' = velocityRenderTargets
          /\ currentPositionIndex' = currentPositionIndex
          /\ currentVelocityIndex' = currentVelocityIndex
          /\ starPositionTexture' = starPositionTexture
          /\ particleUniforms' = particleUniforms
          /\ \/ computeUniforms' =
                  [computeUniforms EXCEPT
                     !.uGravityStrength = computeUniforms'.uGravityStrength]
             \/ computeUniforms' =
                  [computeUniforms EXCEPT
                     !.uOrbitalStrength = computeUniforms'.uOrbitalStrength]
     /\ frames' # frames =>
          /\ computeUniforms'.uGravityStrength = computeUniforms.uGravityStrength
          /\ computeUniforms'.uOrbitalStrength = computeUniforms.uOrbitalStrength
          /\ lastPass'.gravity = computeUniforms.uGravityStrength
          /\ lastPass'.orbital = computeUniforms.uOrbitalStrength
    ]_vars

\* the gravity strength was set to 2.0 and the update that followed computed
\* something else than it would have with the constructor's 0.5
C17_Witness ==
  /\ frames = 1 /\ sliderMoves = 1
  /\ computeUniforms.uGravityStrength = 20
  /\ lastPass.out #
       ComputePass(lastPass.posBefore, lastPass.velBefore, starPositionTexture,
                   textureSize, computeUniforms.uDeltaTime, 5,
                   computeUniforms.uOrbitalStrength)

(***************************************************************************)
(* Packing: the encoder of initializeTextures applied to one particle, then *)
(* loadParticle() applied to the texel it wrote.  Masses are in tenths.     *)
(***************************************************************************)
\* masses 0, 0.1, 1, 100, 2056.3, 511001, 524290.2, 999999.9, 1000000
PackMassSamples == {0, 1, 10, 1000, 20563, 5110010, 5242902, 9999999, 10000000}

\* number of further masses, spread over [0, 1000000]
MaxPackIdx == 45

PackMasses10 ==
  PackMassSamples \cup {(k * 211111) % 10000001 : k \in 1 .. MaxPackIdx}

PackSeeds ==
  {[position |-> VZero, velocity |-> VZero, mass10 |-> mass, type |-> type] :
      mass \in PackMasses10, type \in {"star", "particle"}}

\* positionData[i4 + 3] = particle.type === 'star' ? 1.0 + (particle.mass / 1000) : 0.0
Encode ==
  /\ alpha = <<>>
  /\ alpha' = EncodeDiscriminant(encodedParticle)
  /\ UNCHANGED <<encodedParticle, decoded, gpuVars, cpuVars, starVars, shellVars>>

\* loadParticle() on the texel
Decode ==
  /\ alpha # <<>>
  /\ decoded = <<>>
  /\ decoded' = loadParticle(Texel(encodedParticle.position, alpha), ZeroTexel)
  /\ UNCHANGED <<encodedParticle, alpha, gpuVars, cpuVars, starVars, shellVars>>

PackInit ==
  /\ encodedParticle \in PackSeeds
  /\ alpha = <<>>
  /\ decoded = <<>>
  /\ GPUUnmounted /\ CPUUnmounted /\ StarUnmounted /\ ShellUnmounted

PackNext == Encode \/ Decode

SpecPack == PackInit /\ [][PackNext]_vars

\* 80 times the binary32 value x >= 0: its whole part, and whether that is all
\* of it.  A value of 2^23 or more is reported as 80 * 2^24.
F32Times80(x) ==
  IF x.m = 0 THEN [q |-> 0, exact |-> TRUE]
  ELSE IF x.e >= 0 THEN [q |-> 80 * MantMax, exact |-> FALSE]
  ELSE IF -x.e > 30 THEN [q |-> 0, exact |-> FALSE]
  ELSE [q |-> (80 * x.m) \div 2 ^ (-x.e), exact |-> (80 * x.m) % 2 ^ (-x.e) = 0]

\* C5 (as stated): for a star of mass m in [0, 1000000] the decoded mass is m and
\* the texel is a star; an ambient particle is written as exactly 0.0 and
\* decodes as non-star.
C5_RoundTripExact ==
  decoded # <<>> =>
    IF encodedParticle.type = "star"
    THEN /\ decoded.isStar
         /\ F32Times80(decoded.mass).q = 8 * encodedParticle.mass10
         /\ F32Times80(decoded.mass).exact
    ELSE alpha = F32Zero /\ ~decoded.isStar

\* C5 (amended): the decoded mass is within 1/16 of m, that is
\* |80 * decoded - 80 * m| <= 5, and the texel is a star; an ambient particle is
\* written as exactly 0.0 and decodes as non-star.
C5_RoundTripWithinTolerance ==
  decoded # <<>> =>
    IF encodedParticle.type = "star"
    THEN /\ decoded.isStar
         /\ F32Times80(decoded.mass).q >= 8 * encodedParticle.mass10 - 5
         /\ \/ F32Times80(decoded.mass).q < 8 * encodedParticle.mass10 + 5
            \/ /\ F32Times80(decoded.mass).q = 8 * encodedParticle.mass10 + 5
               /\ F32Times80(decoded.mass).exact
    ELSE alpha = F32Zero /\ ~decoded.isStar

\* a star of mass 1 decoded as a star whose mass is not 1
C5_Witness ==
  /\ decoded # <<>>
  /\ encodedParticle.type = "star"
  /\ encodedParticle.mass10 = 10
  /\ decoded.isStar
  /\ ~(F32Times80(decoded.mass).q = 80 /\ F32Times80(decoded.mass).exact)

(***************************************************************************)
(* The CPU component for loaded data: the loader, the central-gravity      *)
(* frame and exportGalaxyData.  Positions and velocities in millionths,     *)
(* colors in thousandths, masses in thousandths, sizes in ten-thousandths.  *)
(* A triple of numbers is [v, fin]; fin = FALSE is NaN in an array and null *)
(* in a document (JSON.stringify writes NaN as null).                       *)
(***************************************************************************)
Num3(v) == [v |-> v, fin |-> TRUE]

NaN3 == [v |-> VZero, fin |-> FALSE]

DocParticle(p, v, c, mass, type) ==
  [position |-> Num3(p), velocity |-> Num3(v), color |-> c, mass |-> mass,
   type |-> type]

\* the central body the generator emits (at the origin, at rest, mass 1000), a
\* star of mass 200 at distance 5, two orbiting particles of mass 0.1
DocParticles ==
  {DocParticle(<<0, 0, 0>>, <<0, 0, 0>>, <<1000, 600, 200>>, 1000000, "star"),
   DocParticle(<<5000000, 0, 0>>, <<0, 0, 0>>, <<1000, 900, 500>>, 200000, "star"),
   DocParticle(<<1000000, 0, 500000>>, <<-447, 0, 894>>, <<930, 320, 270>>, 100,
               "particle"),
   DocParticle(<<3000000, 100000, -4000000>>, <<400, 0, 300>>, <<650, 400, 500>>, 100,
               "particle")}

CPUSeeds == {<<first, second>> : first \in DocParticles, second \in DocParticles}

\* number of frames explored
MaxTicks == 2

\* a Float32Array element assigned a document number; null is stored as 0
Stored(n3) == IF n3.fin THEN n3 ELSE Num3(VZero)

\* the "particles" memo: the arrays filled from initialData
Load(doc) ==
  [positions  |-> [i \in DOMAIN doc |-> Stored(doc[i].position)],
   velocities |-> [i \in DOMAIN doc |-> Stored(doc[i].velocity)],
   colors     |-> [i \in DOMAIN doc |-> doc[i].color],
   sizes      |-> [i \in DOMAIN doc |-> IF doc[i].type = "star" THEN 6000 ELSE 1]]

\* Math.sqrt(x * x + y * y + z * z), in millionths; 0 only at the origin
LengthMicro(p) ==
  IF Max(Max(Max(p[1], -p[1]), Max(p[2], -p[2])), Max(p[3], -p[3])) < 20000
  THEN Length(p)
  ELSE 1000 * Length(VScale(p, 1, 1000))

\* 0.00001 / Math.max(0.1, distanceFromCenter * distanceFromCenter)
GravitationalForce(d) == 10000000 \div Max(100000, (d \div 1000) * (d \div 1000))

\* vels[i3] -= (x / distanceFromCenter) * gravitationalForce, for x, y and z:
\* at distance 0 the quotient is 0 / 0
Pull(moved, vel, d) ==
  [position |-> moved,
   velocity |-> IF ~moved.fin \/ ~vel.fin \/ d = 0 THEN NaN3
                ELSE Num3(VSub(vel.v, VScale(moved.v, GravitationalForce(d), d)))]

\* positions[i3] += vels[i3], for x, y and z
Advance(pos, vel) == IF pos.fin /\ vel.fin THEN Num3(VAdd(pos.v, vel.v)) ELSE NaN3

\* the body of the frame loop for one particle
TickParticle(pos, vel) ==
  Pull(Advance(pos, vel), vel, LengthMicro(Advance(pos, vel).v))

\* useFrame
Tick ==
  /\ ticks < MaxTicks
  /\ positions' = [i \in DOMAIN positions |->
                     TickParticle(positions[i], velocities[i]).position]
  /\ velocities' = [i \in DOMAIN positions |->
                      TickParticle(positions[i], velocities[i]).velocity]
  /\ ticks' = ticks + 1
  /\ imported' = FALSE
  /\ UNCHANGED <<initialData, colors, sizes, galaxyData, exportedFrom>>
  /\ UNCHANGED <<gpuVars, packVars, starVars, shellVars>>

\* one particle of exportGalaxyData: mass = 1 / (distanceFromCenter + 0.1),
\* type = distanceFromCenter < 2 ? 'star' : 'particle'; a NaN mass is written
\* as null, recorded here as 0
ExportParticle(pos, vel, color) ==
  [position |-> pos, velocity |-> vel, color |-> color,
   mass |-> IF pos.fin THEN 1000000000 \div (LengthMicro(pos.v) + 100000) ELSE 0,
   type |-> IF pos.fin /\ LengthMicro(pos.v) < 2000000 THEN "star" ELSE "particle"]

\* exportGalaxyData
Export ==
  /\ galaxyData' = [i \in DOMAIN positions |->
                      ExportParticle(positions[i], velocities[i], colors[i])]
  /\ exportedFrom' = [document |-> initialData, positions |-> positions,
                      velocities |-> velocities, colors |-> colors, sizes |-> sizes]
  /\ UNCHANGED <<initialData, positions, velocities, colors, sizes, imported, ticks>>
  /\ UNCHANGED <<gpuVars, packVars, starVars, shellVars>>

\* the exported document given back to the component as initialData
Import ==
  /\ galaxyData # <<>>
  /\ initialData' = galaxyData
  /\ positions' = Load(galaxyData).positions
  /\ velocities' = Load(galaxyData).velocities
  /\ colors' = Load(galaxyData).colors
  /\ sizes' = Load(galaxyData).sizes
  /\ imported' = TRUE
  /\ UNCHANGED <<galaxyData, exportedFrom, ticks>>
  /\ UNCHANGED <<gpuVars, packVars, starVars, shellVars>>

CPUInit ==
  /\ \E doc \in CPUSeeds :
       /\ initialData = doc
       /\ positions = Load(doc).positions
       /\ velocities = Load(doc).velocities
       /\ colors = Load(doc).colors
       /\ sizes = Load(doc).sizes
  /\ galaxyData = <<>>
  /\ exportedFrom = <<>>
  /\ imported = FALSE
  /\ ticks = 0
  /\ GPUUnmounted /\ PackUnmounted /\ StarUnmounted /\ ShellUnmounted

CPUNext == Tick \/ Export \/ Import

SpecCPU == CPUInit /\ [][CPUNext]_vars

\* C7: in the central-gravity integrator no frame divides by a zero distance:
\* no position or velocity is ever NaN or Infinity, from any document with
\* finite positions and velocities.
C7_CentralGravityFinite ==
  \A i \in DOMAIN positions : positions[i].fin /\ velocities[i].fin

\* C10: after exporting the arrays and importing the document, every field of
\* every particle is the exported store's: position, velocity and mass (to one
\* thousandth), color and type (with the size that follows from it) exactly.
C10_ExportImportReproduces ==
  imported = TRUE =>
    \A i \in DOMAIN positions :
      /\ positions[i] = exportedFrom.positions[i]
      /\ velocities[i] = exportedFrom.velocities[i]
      /\ colors[i] = exportedFrom.colors[i]
      /\ sizes[i] = exportedFrom.sizes[i]
      /\ initialData[i].type = exportedFrom.document[i].type
      /\ initialData[i].mass - exportedFrom.document[i].mass \in -1 .. 1

(***************************************************************************)
(* The CPU component with star forces and respawn.  Positions in            *)
(* thousandths, velocities and forces in units of 10^-7, delta in           *)
(* milliseconds, directions (cosine, sine) in thousandths.                  *)
(***************************************************************************)
\* a * num / den, truncated, without forming a * num (a >= 0, num >= 0)
FracAbs(a, num, den) == (a \div den) * num + ((a % den) * num) \div den

Frac(a, num, den) ==
  IF (a < 0) = (num < 0) THEN FracAbs(Max(a, -a), Max(num, -num), den)
  ELSE -FracAbs(Max(a, -a), Max(num, -num), den)

\* Math.sqrt(x * x + z * z)
PlaneRadius(p) == ISqrt(p[1] * p[1] + p[3] * p[3])

\* Math.sqrt(0.1 / Math.max(0.5, radius))
OrbitalSpeed(radius) == (1000000000 \div ISqrt(10000 * Max(500, radius))) * 10

\* a particle put on a spiral arm: (cos * radius, y, sin * radius) with the
\* velocity (-sin * orbitalSpeed, 0, cos * orbitalSpeed)
Seeded(radius, dir, y) ==
  [pos |-> <<Frac(radius, dir[1], 1000), y, Frac(radius, dir[2], 1000)>>,
   vel |-> <<Frac(OrbitalSpeed(radius), -dir[2], 1000), 0,
             Frac(OrbitalSpeed(radius), dir[1], 1000)>>]

\* if (radius > 12)
RespawnThreshold == 12000

\* newRadius = 4 + Math.random() * 4
RespawnBandMin == 4000

RespawnBandWidth == 4000

\* Math.min(delta, 0.016)
MaxDelta == 16

\* FORCE_MULTIPLIER * mass / (distanceSquared * Math.sqrt(distance))
ForceMagnitude(mass, distance) ==
  Frac((mass * 2000000) \div ((distance * distance) \div 100), 10000,
       ISqrt(distance * 1000))

\* the spiral motion: (-sin(angle), cos(angle)) * tangentialForce with
\* angle = atan2(z, x) of the particle (0 at the origin)
Tangential(pos, tangentialForce) ==
  IF PlaneRadius(pos) = 0 THEN <<0, 0, tangentialForce>>
  ELSE <<Frac(tangentialForce, -pos[3], PlaneRadius(pos)), 0,
         Frac(tangentialForce, pos[1], PlaneRadius(pos))>>

\* the pull along (dx, dy, dz) / distance, and the spiral motion at half of it
Pulled(pos, delta, distance, force) ==
  VAdd(<<Frac(force, delta[1], distance), Frac(force, delta[2], distance),
         Frac(force, delta[3], distance)>>,
       Tangential(pos, force \div 2))

\* the body of the loop over the stars: nothing within distance 0.1
StarForce(pos, star) ==
  IF Length(VSub(star.position, pos)) > 100
  THEN Pulled(pos, VSub(star.position, pos), Length(VSub(star.position, pos)),
              ForceMagnitude(star.mass, Length(VSub(star.position, pos))))
  ELSE VZero

RECURSIVE TotalForce(_, _, _)
TotalForce(pos, starList, j) ==
  IF j > Len(starList) THEN VZero
  ELSE VAdd(StarForce(pos, starList[j]), TotalForce(pos, starList, j + 1))

\* const MAX_VELOCITY = 0.5, in the unit of the velocities (1/10000000)
MAX_VELOCITY == 5000000

\* velocities * FRICTION + totalForce * cappedDelta; the vertical one * 0.98
StarVelocity(vel, force, cappedDelta) ==
  <<Frac(vel[1], 995, 1000) + Frac(force[1], cappedDelta, 1000),
    Frac(Frac(vel[2], 995, 1000) + Frac(force[2], cappedDelta, 1000), 98, 100),
    Frac(vel[3], 995, 1000) + Frac(force[3], cappedDelta, 1000)>>

\* particlePos += velocities * cappedDelta * POSITION_MULTIPLIER
StarMoved(pos, vel, cappedDelta) ==
  VAdd(pos, <<Frac(vel[1], cappedDelta, 1000000), Frac(vel[2], cappedDelta, 1000000),
              Frac(vel[3], cappedDelta, 1000000)>>)

\* the radius the reset tests: the one computed when the iteration began
RadiusAfterMove(radius, moved) == PlaneRadius(moved)

RadiusTested(radius, moved) == radius

\* "Reset particles that go too far"
Reset(tested, moved, vel, random, radius) ==
  IF tested > RespawnThreshold
  THEN [pos |-> Seeded(RespawnBandMin + Frac(RespawnBandWidth, random.newRadius, 1600),
                       random.dir, random.y).pos,
        vel |-> Seeded(RespawnBandMin + Frac(RespawnBandWidth, random.newRadius, 1600),
                       random.dir, random.y).vel,
        radius |-> radius, reset |-> TRUE]
  ELSE [pos |-> moved, vel |-> vel, radius |-> radius, reset |-> FALSE]

WithVelocity(pos, vel, cappedDelta, random) ==
  Reset(RadiusTested(PlaneRadius(pos), StarMoved(pos, vel, cappedDelta)),
        StarMoved(pos, vel, cappedDelta), vel, random, PlaneRadius(pos))

\* one iteration of "Update particles"
FrameParticle(pos, vel, starList, cappedDelta, random) ==
  WithVelocity(pos,
               StarVelocity(vel, VAdd(TotalForce(pos, starList, 1), random.force),
                            cappedDelta),
               cappedDelta, random)

MaxStarTicks == 2

\* the frame times handed to useFrame, in milliseconds
Deltas == {8, 33}

\* One iteration's Math.random() draws: the random force, Math.random() of
\* newRadius in 1/1600, the direction of finalAngle (one that an arm angle
\* plus newRadius * SPIRAL_TIGHTNESS plus an offset within 0.15 gives) and
\* the height.
Random(force, newRadius, dir, y) ==
  [force |-> force, newRadius |-> newRadius, dir |-> dir, y |-> y]

Randoms ==
  {Random(<<0, 0, 0>>, 0, <<960, 280>>, 0),
   Random(<<99, -10, -100>>, 0, <<-280, 960>>, -100),
   Random(<<-100, 9, 99>>, 800, <<-1000, 0>>, 99),
   Random(<<0, 0, 0>>, 800, <<0, 1000>>, -100),
   Random(<<99, 9, 99>>, 1598, <<600, 800>>, 0),
   Random(<<-100, -10, -100>>, 1598, <<-800, 600>>, 99)}

StarBody(p, mass) == [position |-> p, mass |-> mass]

\* The galaxy documents: the stars, and the one particle by the radius,
\* spiral direction and height the particle memo gives it.
StarSeed(starList, radius, dir, y) ==
  [stars |-> starList, radius |-> radius, dir |-> dir, y |-> y]

StarSeeds ==
  {StarSeed(<<StarBody(<<0, 0, 0>>, 1000)>>, 12010, <<960, -280>>, 20),
   StarSeed(<<StarBody(<<11328, 0, -3304>>, 1000)>>, 12010, <<960, -280>>, 20),
   StarSeed(<<StarBody(<<0, 0, 0>>, 1000), StarBody(<<11712, 0, -3416>>, 1000)>>,
            11990, <<960, -280>>, 20),
   StarSeed(<<StarBody(<<0, 0, 0>>, 200), StarBody(<<-6050, 0, 0>>, 50)>>,
            6000, <<-1000, 0>>, -20),
   StarSeed(<<StarBody(<<-6120, 0, 0>>, 1000)>>, 6000, <<-1000, 0>>, 0),
   StarSeed(<<>>, 13000, <<-1000, 0>>, 0)}

\* the stars / particles split and the particle memo
StarInit ==
  /\ GPUUnmounted /\ PackUnmounted /\ CPUUnmounted /\ ShellUnmounted
  /\ \E seed \in StarSeeds :
        /\ stars = seed.stars
        /\ particlePos = <<Seeded(seed.radius, seed.dir, seed.y).pos>>
        /\ particleVelocities = <<Seeded(seed.radius, seed.dir, seed.y).vel>>
  /\ lastTick = <<[radius |-> 0, reset |-> FALSE]>>
  /\ starTicks = 0

\* the useFrame callback
Frame(delta) ==
  /\ starTicks < MaxStarTicks
  /\ \E random \in [DOMAIN particlePos -> Randoms] :
        /\ particlePos' =
             [i \in DOMAIN particlePos |->
                FrameParticle(particlePos[i], particleVelocities[i], stars,
                              Min(delta, MaxDelta), random[i]).pos]
        /\ particleVelocities' =
             [i \in DOMAIN particlePos |->
                FrameParticle(particlePos[i], particleVelocities[i], stars,
                              Min(delta, MaxDelta), random[i]).vel]
        /\ lastTick' =
             [i \in DOMAIN particlePos |->
                [radius |-> FrameParticle(particlePos[i], particleVelocities[i], stars,
                                          Min(delta, MaxDelta), random[i]).radius,
                 reset |-> FrameParticle(particlePos[i], particleVelocities[i], stars,
                                         Min(delta, MaxDelta), random[i]).reset]]
  /\ starTicks' = starTicks + 1
  /\ UNCHANGED <<stars, gpuVars, packVars, cpuVars, shellVars>>

StarNext == \E delta \in Deltas : Frame(delta)

SpecStar == StarInit /\ [][StarNext]_vars

\* C8: a particle whose distance from the vertical axis exceeded 12 when the
\* tick began ends the tick inside the radial band from 4 to 8, with the
\* tangential velocity seeded for the place it ends at.
C8_RespawnedIntoBand ==
  \A i \in DOMAIN lastTick :
    lastTick[i].radius > RespawnThreshold =>
      /\ PlaneRadius(particlePos[i]) >= RespawnBandMin
      /\ PlaneRadius(particlePos[i]) <= RespawnBandMin + RespawnBandWidth
      /\ particleVelocities[i] =
           Seeded(PlaneRadius(particlePos[i]),
                  <<TDiv(particlePos[i][1] * 1000, PlaneRadius(particlePos[i])),
                    TDiv(particlePos[i][3] * 1000, PlaneRadius(particlePos[i]))>>,
                  particlePos[i][2]).vel

\* C19: at the end of every tick every particle's plane radius is at most 12
\* (a tick that leaves a particle beyond 12 respawns it).
C19_NeverBeyondThreshold ==
  starTicks > 0 =>
    \A i \in DOMAIN particlePos : PlaneRadius(particlePos[i]) <= RespawnThreshold

\* C26: after every tick the speed of every ambient particle is at most
\* MAX_VELOCITY (compared in units of 1/10000, components truncated, so that a
\* speed found above the cap is above it).
C26_SpeedCapped ==
  starTicks > 0 =>
    \A i \in DOMAIN particleVelocities :
      Length(<<TDiv(particleVelocities[i][1], 1000), TDiv(particleVelocities[i][2], 1000),
               TDiv(particleVelocities[i][3], 1000)>>) <= MAX_VELOCITY \div 1000

\* a particle that began a tick beyond 12, next to a star, was put at 7.995
C8_Witness ==
  /\ starTicks > 0
  /\ \E i \in DOMAIN lastTick :
        /\ lastTick[i].radius > RespawnThreshold
        /\ lastTick[i].reset
        /\ Len(stars) = 1 /\ stars[1].position # <<0, 0, 0>>
        /\ PlaneRadius(particlePos[i]) = 7995

(***************************************************************************)
(* Ingestion: the selector's validator and the loaders of the components.   *)
(* An entry's velocity is <<>> when the field is absent; its colour is      *)
(* either an array (hex = FALSE) or a "#rrggbb" string naming the same rgb   *)
(* (hex = TRUE); its mass is a number or a string.  Positions in            *)
(* thousandths, colours in thousandths.                                     *)
(***************************************************************************)
Entry(position, velocity, hex, massIsNumber, type) ==
  [position |-> position, velocity |-> velocity,
   color |-> [hex |-> hex, rgb |-> <<1000, 502, 0>>],
   mass |-> [isNumber |-> massIsNumber, value |-> 100], type |-> type]

Entries ==
  {Entry(<<-6000, -100, 0>>, <<100, 0, 0>>, FALSE, TRUE, "particle"),
   Entry(<<-6000, -100, 0>>, <<0, 0, 0>>, FALSE, TRUE, "star"),
   Entry(<<-6000, -100, 0>>, <<>>, FALSE, TRUE, "particle"),
   Entry(<<-6000, -100, 0>>, <<100, 0, 0>>, TRUE, TRUE, "particle"),
   Entry(<<-6000, -100>>, <<100, 0, 0>>, FALSE, TRUE, "particle"),
   Entry(<<-6000, -100, 0>>, <<100, 0, 0>>, FALSE, FALSE, "star")}

\* the test validateGalaxyData applies to one entry
ValidEntry(entry) ==
  /\ Len(entry.position) = 3
  /\ Len(entry.velocity) = 3
  /\ ~entry.color.hex
  /\ entry.mass.isNumber

\* A document: the unified shape has no top-level stars (hasStars = FALSE),
\* the legacy shape has them.
Document(hasStars, starList, particles) ==
  [hasStars |-> hasStars, stars |-> starList, particles |-> particles]

Documents ==
  {Document(legacy, IF legacy THEN <<[position |-> <<0, 0, 0>>, mass |-> 1000]>> ELSE <<>>,
            particles) :
     legacy \in BOOLEAN,
     particles \in {<<>>} \cup {<<e>> : e \in Entries}
                   \cup {<<e, f>> : e \in {g \in Entries : ValidEntry(g)}, f \in Entries}
                   \cup {<<f, e>> : e \in {g \in Entries : ValidEntry(g)}, f \in Entries}}

\* what the components index without a check: three coordinates and a number
Indexable(data) ==
  \A i \in DOMAIN data.particles :
    Len(data.particles[i].position) = 3 /\ data.particles[i].mass.isNumber

validateAnyEntry(data) ==
  Len(data.particles) > 0 /\ \E i \in DOMAIN data.particles : ValidEntry(data.particles[i])

validateGalaxyData(data) ==
  Len(data.particles) > 0 /\ \A i \in DOMAIN data.particles : ValidEntry(data.particles[i])

\* App.handleGalaxySelect(source): only 'initial' is handled, by fetching
\* /initial_galaxy.json (here a document of one well-formed particle); the
\* function takes no second parameter.  The result is the new galaxyData.
handleGalaxySelect(source) ==
  IF source = "initial"
  THEN <<Document(FALSE, <<>>,
                  <<Entry(<<-6000, -100, 0>>, <<100, 0, 0>>, FALSE, TRUE, "particle")>>)>>
  ELSE app.galaxyData

\* reader.onload: the text either parses or JSON.parse throws
handleFileUpload(parses, data) ==
  /\ app.galaxyData = <<>>
  /\ file' = [parses |-> parses, data |-> data]
  /\ selected' = IF parses /\ validateGalaxyData(data) THEN <<data>> ELSE <<>>
  /\ alerts' = IF parses /\ validateGalaxyData(data) THEN 0 ELSE 1
  /\ app' = IF parses /\ validateGalaxyData(data)
            THEN [app EXCEPT !.galaxyData = handleGalaxySelect("file")]
            ELSE app
  /\ UNCHANGED <<loaded, generated, view, reference, simulation,
                 gpuVars, packVars, cpuVars, starVars>>

\* "Load Sample Galaxy": onSelect('initial'), the fetch succeeding
LoadSample ==
  /\ app.galaxyData = <<>>
  /\ app' = [app EXCEPT !.galaxyData = handleGalaxySelect("initial")]
  /\ UNCHANGED <<file, selected, alerts, loaded, generated, view, reference, simulation,
                 gpuVars, packVars, cpuVars, starVars>>

\* The particle memo of the star-force component for one entry at
\* (-6, y, 0): arm angle pi, spiral angle pi + 3, so finalAngle can be 2 pi.
SplitParticle(entry) ==
  Seeded(PlaneRadius(entry.position), <<1000, 0>>, Frac(entry.position[2], 2, 10))

\* The star-force component mounted (once) with initialData = data: the entries of
\* data.particles split by type, the particles put on their arms.
Split(data) ==
  /\ loaded.by = "none"
  /\ Indexable(data)
  /\ loaded' =
       [by |-> "split", data |-> data, threw |-> FALSE,
        stars |-> SelectSeq(data.particles, LAMBDA e : e.type = "star"),
        particles |->
          [i \in DOMAIN SelectSeq(data.particles, LAMBDA e : e.type # "star") |->
             SplitParticle(SelectSeq(data.particles, LAMBDA e : e.type # "star")[i])]]
  /\ UNCHANGED <<file, selected, alerts, generated, view, reference, simulation, app,
                 gpuVars, packVars, cpuVars, starVars>>

\* The component that fetches the two-array document (once, on mount):
\* data.stars.length and particle.velocity[0] throw a TypeError when the
\* field is missing.
FetchLegacy(data) ==
  /\ loaded.by = "none"
  /\ Indexable(data)
  /\ loaded' =
       IF data.hasStars /\ \A i \in DOMAIN data.particles : data.particles[i].velocity # <<>>
       THEN [by |-> "fetch", data |-> data, threw |-> FALSE, stars |-> data.stars,
             particles |-> [i \in DOMAIN data.particles |->
                              [pos |-> data.particles[i].position,
                               vel |-> data.particles[i].velocity]]]
       ELSE [by |-> "fetch", data |-> data, threw |-> TRUE, stars |-> <<>>,
             particles |-> <<>>]
  /\ UNCHANGED <<file, selected, alerts, generated, view, reference, simulation, app,
                 gpuVars, packVars, cpuVars, starVars>>

IngestInit ==
  /\ GPUUnmounted /\ PackUnmounted /\ CPUUnmounted /\ StarUnmounted
  /\ generated = <<>> /\ view = <<>> /\ reference = <<>> /\ simulation = <<>>
  /\ app = [galaxyData |-> <<>>]
  /\ file = [parses |-> FALSE, data |-> Document(FALSE, <<>>, <<>>)]
  /\ selected = <<>>
  /\ alerts = 0
  /\ loaded = [by |-> "none", data |-> Document(FALSE, <<>>, <<>>), threw |-> FALSE,
               stars |-> <<>>, particles |-> <<>>]

IngestNext ==
  \E data \in Documents :
    \/ handleFileUpload(TRUE, data)
    \/ data.particles = <<>> /\ handleFileUpload(FALSE, data)
    \/ Split(data)
    \/ FetchLegacy(data)
    \/ LoadSample

SpecIngest == IngestInit /\ [][IngestNext]_vars

\* C11: a file with an entry whose position is not a 3-element array or whose
\* mass is not a number is rejected: onSelect is not called with it.
C11_MalformedRejected ==
  (file.parses /\ ~Indexable(file.data)) => selected = <<>> /\ alerts = 1

\* the second entry of a two-entry file is malformed, the first is well formed
C11_Witness ==
  /\ file.parses /\ Len(file.data.particles) = 2
  /\ ValidEntry(file.data.particles[1])
  /\ ~file.data.particles[2].mass.isNumber
  /\ selected = <<>>

\* C12: an entry without a velocity field is accepted, and the particle made
\* from it starts with velocity (0, 0, 0).
C12_MissingVelocityDefaultsToZero ==
  /\ (/\ file.parses /\ Len(file.data.particles) > 0
      /\ \A i \in DOMAIN file.data.particles :
            /\ Len(file.data.particles[i].position) = 3
            /\ Len(file.data.particles[i].velocity) \in {0, 3}
            /\ ~file.data.particles[i].color.hex
            /\ file.data.particles[i].mass.isNumber)
       => selected = <<file.data>>
  /\ (/\ loaded.by = "split"
      /\ \A i \in DOMAIN loaded.data.particles : loaded.data.particles[i].velocity = <<>>)
       => \A i \in DOMAIN loaded.particles : loaded.particles[i].vel = <<0, 0, 0>>

\* colors[i3] = particle.color[0]: a character of a string stored in a
\* Float32Array is NaN
LoadColor(color) == IF color.hex THEN NaN3 ELSE Num3(color.rgb)

\* C13: a colour given as an rgb array and the same colour given as a
\* "#rrggbb" string are both accepted and loaded as the same rgb triple.
C13_BothColorFormsNormalized ==
  (/\ file.parses /\ Len(file.data.particles) > 0
   /\ \A i \in DOMAIN file.data.particles :
         /\ Len(file.data.particles[i].position) = 3
         /\ Len(file.data.particles[i].velocity) = 3
         /\ file.data.particles[i].mass.isNumber)
    => /\ selected = <<file.data>>
       /\ \A i \in DOMAIN file.data.particles :
             LoadColor(file.data.particles[i].color) =
               Num3(file.data.particles[i].color.rgb)

\* C14: a component that loaded a document of either shape holds every star
\* and every particle of it.
C14_BothShapesLoaded ==
  loaded.by # "none" =>
    /\ ~loaded.threw
    /\ Len(loaded.stars) =
         Len(loaded.data.stars)
           + Len(SelectSeq(loaded.data.particles, LAMBDA e : e.type = "star"))
    /\ Len(loaded.particles) =
         Len(SelectSeq(loaded.data.particles, LAMBDA e : e.type # "star"))

\* C30: once a file that parses and passes validateGalaxyData has been
\* uploaded, the application's galaxyData is that document (and the simulation
\* is shown with it, which App does exactly when galaxyData is set).
C30_ValidUploadShown ==
  (file.parses /\ validateGalaxyData(file.data)) => app.galaxyData = <<file.data>>

(***************************************************************************)
(* The generator script (stars and particles), masses in tenths.  mass[i]   *)
(* is star i's mass, nearestStar[i] is Math.floor(Math.random() * numStars) *)
(* of particle i; an index outside the list built so far makes              *)
(* particles[nearestStar] undefined, and reading its position throws a      *)
(* TypeError.  The script runs once.                                        *)
(***************************************************************************)
MaxCount == 3

generateGalaxy(numStars, numParticles, mass, nearestStar) ==
  IF \E i \in 1 .. numParticles :
        nearestStar[i] < 0 \/ nearestStar[i] >= Max(numStars, 0) + (i - 1)
  THEN [numStars |-> numStars, numParticles |-> numParticles, error |-> "TypeError",
        particles |-> <<>>]
  ELSE [numStars |-> numStars, numParticles |-> numParticles, error |-> "none",
        particles |->
          [i \in 1 .. Max(numStars, 0) |-> [type |-> "star", mass |-> mass[i]]]
            \o [i \in 1 .. Max(numParticles, 0) |->
                  [type |-> "particle", mass |-> 1, nearestStar |-> nearestStar[i]]]]

\* the script: galaxyData = generateGalaxy(...); writeFileSync(outputPath, ...)
Generate(numStars, numParticles) ==
  /\ ~generated.ran
  /\ \E mass \in [1 .. numStars -> {1000, 2990}],
        nearestStar \in [1 .. numParticles -> Min(numStars, 0) .. Max(numStars - 1, 0)] :
       generated' =
         [ran |-> TRUE,
          result |-> generateGalaxy(numStars, numParticles, mass, nearestStar),
          written |-> generateGalaxy(numStars, numParticles, mass, nearestStar).error
                        = "none"]
  /\ UNCHANGED <<file, selected, alerts, loaded, view, reference, simulation, app,
                 gpuVars, packVars, cpuVars, starVars>>

GenInit ==
  /\ GPUUnmounted /\ PackUnmounted /\ CPUUnmounted /\ StarUnmounted
  /\ file = <<>> /\ selected = <<>> /\ alerts = <<>> /\ loaded = <<>> /\ view = <<>>
  /\ reference = <<>> /\ simulation = <<>> /\ app = <<>>
  /\ generated = [ran |-> FALSE, result |-> generateGalaxy(0, 0, <<>>, <<>>),
                  written |-> FALSE]

GenNext ==
  \E numStars \in -1 .. MaxCount, numParticles \in -1 .. MaxCount :
    Generate(numStars, numParticles)

SpecGen == GenInit /\ [][GenNext]_vars

\* C15: a negative star count or a negative particle count is reported as an
\* error, and nothing is returned or written.
C15_NegativeCountsRejected ==
  (generated.ran /\ (generated.result.numStars < 0 \/ generated.result.numParticles < 0)) =>
    generated.result.error # "none" /\ ~generated.written

\* C25: for non-negative counts (0 stars with some particles included) the
\* generator completes and returns exactly numStars stars followed by exactly
\* numParticles particles.
C25_NonNegativeCountsComplete ==
  (generated.ran /\ generated.result.numStars >= 0 /\ generated.result.numParticles >= 0) =>
    /\ generated.result.error = "none"
    /\ Len(generated.result.particles) =
         generated.result.numStars + generated.result.numParticles
    /\ \A i \in 1 .. Len(generated.result.particles) :
         generated.result.particles[i].type =
           IF i <= generated.result.numStars THEN "star" ELSE "particle"

(***************************************************************************)
(* The image viewer's updateScale.  The scale is the fraction num / den;    *)
(* an offset is kept as twice its value times den (both are exact).         *)
(***************************************************************************)
ORIGINAL_WIDTH == 3214

ORIGINAL_HEIGHT == 3233

\* container.clientWidth and container.clientHeight
ViewportSizes == {1, 320, 768, 1080, 1920, 3214, 3233, 3234, 6428, 6466, 9999}

TallerThanImage(clientWidth, clientHeight) ==
  clientWidth * ORIGINAL_HEIGHT < ORIGINAL_WIDTH * clientHeight

\* containerAspect > imageAspect
WiderThanImage(clientWidth, clientHeight) ==
  clientWidth * ORIGINAL_HEIGHT > ORIGINAL_WIDTH * clientHeight

updateScale(clientWidth, clientHeight) ==
  /\ view' =
       IF WiderThanImage(clientWidth, clientHeight)
       THEN [measured |-> TRUE, clientWidth |-> clientWidth, clientHeight |-> clientHeight,
             scale |-> [num |-> clientHeight, den |-> ORIGINAL_HEIGHT],
             offset |-> [x |-> clientWidth * ORIGINAL_HEIGHT - ORIGINAL_WIDTH * clientHeight,
                         y |-> 0]]
       ELSE [measured |-> TRUE, clientWidth |-> clientWidth, clientHeight |-> clientHeight,
             scale |-> [num |-> clientWidth, den |-> ORIGINAL_WIDTH],
             offset |-> [x |-> 0,
                         y |-> clientHeight * ORIGINAL_WIDTH - ORIGINAL_HEIGHT * clientWidth]]
  /\ UNCHANGED <<file, selected, alerts, loaded, generated, reference, simulation, app,
                 gpuVars, packVars, cpuVars, starVars>>

\* useState(1), useState({ x: 0, y: 0 })
ScaleInit ==
  /\ GPUUnmounted /\ PackUnmounted /\ CPUUnmounted /\ StarUnmounted
  /\ file = <<>> /\ selected = <<>> /\ alerts = <<>> /\ loaded = <<>> /\ generated = <<>>
  /\ reference = <<>> /\ simulation = <<>> /\ app = <<>>
  /\ view = [measured |-> FALSE, clientWidth |-> 0, clientHeight |-> 0,
             scale |-> [num |-> 1, den |-> 1], offset |-> [x |-> 0, y |-> 0]]

ScaleNext ==
  \E clientWidth \in ViewportSizes, clientHeight \in ViewportSizes :
    updateScale(clientWidth, clientHeight)

SpecScale == ScaleInit /\ [][ScaleNext]_vars

\* C16: the scale is min(Cw / W, Ch / H), the offsets are (Cw - W * s) / 2 and
\* (Ch - H * s) / 2; so the scaled image fits in the viewport, no offset is
\* negative and the offset along the constrained axis is zero.
C16_ScaleAndOffsets ==
  view.measured =>
    /\ view.scale.num * ORIGINAL_WIDTH <= view.clientWidth * view.scale.den
    /\ view.scale.num * ORIGINAL_HEIGHT <= view.clientHeight * view.scale.den
    /\ \/ view.scale.num * ORIGINAL_WIDTH = view.clientWidth * view.scale.den
       \/ view.scale.num * ORIGINAL_HEIGHT = view.clientHeight * view.scale.den
    /\ view.offset.x = view.clientWidth * view.scale.den - ORIGINAL_WIDTH * view.scale.num
    /\ view.offset.y = view.clientHeight * view.scale.den - ORIGINAL_HEIGHT * view.scale.num
    /\ view.offset.x >= 0 /\ view.offset.y >= 0
    /\ view.offset.x = 0 \/ view.offset.y = 0

\* a viewport wider than the image: the height constrains, the image is
\* centred horizontally
C16_Witness ==
  /\ view.measured /\ view.clientWidth = 1920 /\ view.clientHeight = 1080
  /\ view.scale.den = ORIGINAL_HEIGHT /\ view.offset.x > 0 /\ view.offset.y = 0

(***************************************************************************)
(* The reference attribute: the texture coordinate through which the vertex *)
(* shader of point i fetches its position texel.                           *)
(***************************************************************************)
\* largest number of particles explored, apart from the one larger count
MaxParticleCount == 36

\* initializeParticleSystem(particleCount): references[i * 2] = (i % S) / S and
\* references[i * 2 + 1] = Math.floor(i / S) / S, stored in a Float32Array
initializeParticleSystem(particleCount, sampler) ==
  [particleCount |-> particleCount,
   textureSize   |-> CeilSqrt(particleCount),
   references    |->
     [i \in 0 .. particleCount - 1 |->
        <<F32FromRatio(i % CeilSqrt(particleCount), CeilSqrt(particleCount), 0),
          F32FromRatio(i \div CeilSqrt(particleCount), CeilSqrt(particleCount), 0)>>],
   sampler       |-> sampler,
   vertex        |-> -1,
   texel         |-> <<>>]

\* texture2D with NearestFilter: the texel floor(u * size) along one axis.  The
\* sampler forms u * size exactly, or rounded to binary32, or rounded to a
\* fixed-point number with 8 fraction bits; which one is the device's choice.
NearestTexel(u, size, sampler) ==
  IF u.m = 0 THEN 0
  ELSE IF sampler = "real" THEN (u.m * size) \div 2 ^ (-u.e)
  ELSE IF sampler = "binary32" THEN F32ToInt(F32FromInt(u.m * size, u.e))
  ELSE ((u.m * size + 2 ^ (-u.e - 9)) \div 2 ^ (-u.e - 8)) \div 256

\* main() of the vertex shader for point i: texture2D(uPositionTexture, reference).
\* A draw call runs it for the points in order.
particleVertexShader(i) ==
  /\ i = reference.vertex + 1
  /\ reference' =
       [reference EXCEPT
          !.vertex = i,
          !.texel = <<NearestTexel(reference.references[i][1], reference.textureSize,
                                   reference.sampler),
                      NearestTexel(reference.references[i][2], reference.textureSize,
                                   reference.sampler)>>]
  /\ UNCHANGED <<file, selected, alerts, loaded, generated, view, simulation, app>>
  /\ UNCHANGED <<gpuVars, packVars, cpuVars, starVars>>

\* 470 particles make a texture of 22 x 22
RefInit ==
  /\ \E particleCount \in (1 .. MaxParticleCount) \cup {470},
        sampler \in {"real", "binary32", "fixed8"} :
       reference = initializeParticleSystem(particleCount, sampler)
  /\ file = <<>> /\ selected = <<>> /\ alerts = <<>> /\ loaded = <<>>
  /\ generated = <<>> /\ view = <<>> /\ simulation = <<>> /\ app = <<>>
  /\ GPUUnmounted /\ PackUnmounted /\ CPUUnmounted /\ StarUnmounted

RefNext == \E i \in 0 .. reference.particleCount - 1 : particleVertexShader(i)

SpecRef == RefInit /\ [][RefNext]_vars

\* C24: the texture has at least as many texels as there are particles, and the
\* texel the vertex shader fetches for point i is the one at row-major offset i,
\* where the encoder wrote particle i (so no two points fetch the same texel).
C24_ReferenceAddressesOwnTexel ==
  /\ reference.textureSize * reference.textureSize >= reference.particleCount
  /\ reference.vertex >= 0 =>
       reference.texel[2] * reference.textureSize + reference.texel[1]
         = reference.vertex

(***************************************************************************)
(* The component that owns a GPUParticleSystem: its two slider states, its  *)
(* ref to the engine, and the engines it has created.  initialData is 0 for *)
(* undefined, otherwise the identity of the object passed in.               *)
(***************************************************************************)
\* number of engines a component creates in the runs explored
MaxEngines == 2

\* The body of the first effect: without initialData it returns at once;
\* otherwise particleSystemRef.current = new GPUParticleSystem(...), whose
\* uniforms start at 0.5 and 1.0.
CreateEngine(sim, data) ==
  IF data = 0 THEN [sim EXCEPT !.initialData = data]
  ELSE [sim EXCEPT
          !.initialData = data,
          !.engines = Append(@, [uGravityStrength |-> 5, uOrbitalStrength |-> 10,
                                 disposed |-> FALSE]),
          !.particleSystemRef = Len(sim.engines) + 1]

\* The cleanup the first effect returned, if it ran with initialData:
\* particleSystemRef.current?.dispose().  The ref is left as it is.
Cleanup(sim) ==
  IF sim.initialData # 0 /\ sim.particleSystemRef # 0
  THEN [sim EXCEPT !.engines[sim.particleSystemRef].disposed = TRUE]
  ELSE sim

\* The parent renders the component with another initialData: the cleanup of
\* the first effect, then the effect again.  The slider effects do not run,
\* their dependencies are unchanged.
ChangeInitialData(data) ==
  /\ simulation.mounted
  /\ data # simulation.initialData
  /\ Len(simulation.engines) < MaxEngines
  /\ simulation' = CreateEngine(Cleanup(simulation), data)
  /\ UNCHANGED <<file, selected, alerts, loaded, generated, view, reference, app>>
  /\ UNCHANGED <<gpuVars, packVars, cpuVars, starVars>>

\* The gravity slider's onChange: the state, then the effect that depends on it.
\* The sliders are rendered only with initialData.
onChangeGravity(value) ==
  /\ simulation.mounted /\ simulation.initialData # 0
  /\ value # simulation.gravityStrength
  /\ simulation' =
       IF simulation.particleSystemRef # 0
       THEN [simulation EXCEPT
               !.gravityStrength = value,
               !.engines[simulation.particleSystemRef].uGravityStrength = value]
       ELSE [simulation EXCEPT !.gravityStrength = value]
  /\ UNCHANGED <<file, selected, alerts, loaded, generated, view, reference, app>>
  /\ UNCHANGED <<gpuVars, packVars, cpuVars, starVars>>

\* the orbital slider's onChange
onChangeOrbital(value) ==
  /\ simulation.mounted /\ simulation.initialData # 0
  /\ value # simulation.orbitalStrength
  /\ simulation' =
       IF simulation.particleSystemRef # 0
       THEN [simulation EXCEPT
               !.orbitalStrength = value,
               !.engines[simulation.particleSystemRef].uOrbitalStrength = value]
       ELSE [simulation EXCEPT !.orbitalStrength = value]
  /\ UNCHANGED <<file, selected, alerts, loaded, generated, view, reference, app>>
  /\ UNCHANGED <<gpuVars, packVars, cpuVars, starVars>>

\* The useFrame callback: if (particleSystemRef.current) update(deltaTime).
\* updated keeps the engine called and whether it had been disposed of.
useFrame ==
  /\ simulation.mounted
  /\ simulation.particleSystemRef # 0
  /\ simulation' =
       [simulation EXCEPT
          !.updated =
            [engine |-> simulation.particleSystemRef,
             disposed |-> simulation.engines[simulation.particleSystemRef].disposed]]
  /\ UNCHANGED <<file, selected, alerts, loaded, generated, view, reference, app>>
  /\ UNCHANGED <<gpuVars, packVars, cpuVars, starVars>>

\* The component is unmounted: the cleanup runs, the frame subscription ends.
Unmount ==
  /\ simulation.mounted
  /\ simulation' = [Cleanup(simulation) EXCEPT !.mounted = FALSE]
  /\ UNCHANGED <<file, selected, alerts, loaded, generated, view, reference, app>>
  /\ UNCHANGED <<gpuVars, packVars, cpuVars, starVars>>

\* The first render and its effects: the engine, if there is initialData, then
\* the two setters with the initial slider states 0.5 and 1.0.
SimInit ==
  /\ \E data \in 0 .. 2 :
       simulation =
         CreateEngine([mounted |-> TRUE, initialData |-> 0, gravityStrength |-> 5,
                       orbitalStrength |-> 10, particleSystemRef |-> 0,
                       engines |-> <<>>,
                       updated |-> [engine |-> 0, disposed |-> FALSE]], data)
  /\ file = <<>> /\ selected = <<>> /\ alerts = <<>> /\ loaded = <<>>
  /\ generated = <<>> /\ view = <<>> /\ reference = <<>> /\ app = <<>>
  /\ GPUUnmounted /\ PackUnmounted /\ CPUUnmounted /\ StarUnmounted

SimNext ==
  \/ \E data \in 0 .. 2 : ChangeInitialData(data)
  \/ \E value \in Strengths : onChangeGravity(value)
  \/ \E value \in Strengths : onChangeOrbital(value)
  \/ useFrame
  \/ Unmount

SpecSim == SimInit /\ [][SimNext]_vars

\* C28: whenever the component holds a live engine, the engine's two strength
\* uniforms equal the component's slider states.
C28_EngineFollowsSliders ==
  ( /\ simulation.mounted
    /\ simulation.particleSystemRef # 0
    /\ ~simulation.engines[simulation.particleSystemRef].disposed )
  => /\ simulation.engines[simulation.particleSystemRef].uGravityStrength
          = simulation.gravityStrength
     /\ simulation.engines[simulation.particleSystemRef].uOrbitalStrength
          = simulation.orbitalStrength

\* C29: every update() the frame callback has made was on an engine that had
\* not been disposed of.
C29_NoUpdateAfterDispose ==
  simulation.updated.engine # 0 => ~simulation.updated.disposed

====
